---- MODULE Spec2Model ----
(***************************************************************************)
(* Model of the visualization helper vae_plots (the compiled module kept   *)
(* at the end of practical-pyro-pytorch/modules.ipynb): the sample-grid    *)
(* functions plot_conditional_samples_ssvae and plot_vae_samples, the      *)
(* loss-curve function plot_llk and the embedding plot plot_tsne, together *)
(* with the collaborators they act on: the visdom session, the working     *)
(* directory, pyplot's global figure list and the t-SNE reducer; the cells  *)
(* of the PyroModule notebook modules.ipynb; and the jitted inference run   *)
(* of the JIT notebook.                                                     *)
(***************************************************************************)
EXTENDS Integers, Sequences, FiniteSets, TLC

VARIABLES
  events,     \* calls received by the collaborators of the sample grids, in order
  dirExists,  \* whether ./vae_results exists in the working directory
  files,      \* the files on disk: location -> saved content
  figs,       \* pyplot's open figures, the current figure last
  rng,        \* state of the global numpy random generator
  tsneRuns,   \* every reduction made so far: input and 2-D output
  last,       \* what the most recent helper call was given and did
  prev,       \* the same for the call before it
  history,    \* how every helper call so far ended, in order
  ncalls,     \* number of helper calls, cell runs and inference steps made
  linear,     \* the object bound to the notebook name `linear`
  draws,      \* number of values drawn from priors so far
  cells,      \* the notebook cells run so far and what each did
  compiled,   \* the jitted loss: the keys it holds a compiled trace for
  jitlog,     \* the inference steps made: arguments and whether one compiled
  coin        \* the coin example: the last runs of its model and of its guide

nbVars == <<linear, draws, cells, compiled, jitlog, coin>>

plotVars == <<events, dirExists, files, figs, rng, tsneRuns, last, prev, history>>

vars == <<events, dirExists, files, figs, rng, tsneRuns, last, prev, history,
          ncalls, linear, draws, cells, compiled, jitlog, coin>>

\* ---------------------------------------------------------------- bounds
MaxCalls == 2
MaxObs == 2
MaxEpochs == 2
NumSeeds == 2
MaxCells == 3
MaxSteps == 4
MaxFlips == 11

\* ------------------------------------------------------ program constants
NumLabels == 10
SamplesPerLabel == 100
ImgSide == 28
FlatLen == 784
GridNrow == 10
GridPadding == 2
NumClasses == 10
NComponents == 2
RandomState == 0

\* ------------------------------------------------------------ collaborators
\* Number of distinct image contents the generative model can return.
PixMod == 5
\* A flattened length that cannot be viewed as 1x28x28.
BadLen == FlatLen \div 2

RECURSIVE Prod(_)
Prod(shape) == IF shape = <<>> THEN 1 ELSE Head(shape) * Prod(Tail(shape))

\* torch.zeros(1, n)
Zeros(n) == [shape |-> <<1, n>>, id |-> 0]

\* ys[i] = torch.zeros(1, 10); ys[i][0, i] = 1
OneHot(i) == [c \in 1..NumLabels |-> IF c = i + 1 THEN 1 ELSE 0]

\* tensor.view(shape): the same data under a new shape, an error when the
\* number of elements differs.
View(t, shape) ==
  IF Prod(shape) = Prod(t.shape)
  THEN [ok |-> TRUE, val |-> [shape |-> shape, id |-> t.id]]
  ELSE [ok |-> FALSE, val |-> t]

RECURSIVE HotIndex(_)
HotIndex(y) == IF y = <<>> THEN 0
               ELSE IF Head(y) = 1 THEN 0 ELSE 1 + HotIndex(Tail(y))

\* The generative model collaborator, m = [seed, outLen]: its return value is
\* a pair whose first element is the batch of flattened pixel means.  y is
\* the one-hot label, or <<>> for the unconditional model.
ModelCall(m, y, rr) ==
  <<[shape |-> <<1, m.outLen>>,
     id |-> (m.seed + 3 * HotIndex(y) + rr) % PixMod],
    "aux">>

ModelEvent(y, ret) ==
  [type |-> "model", y |-> y, ret |-> ret[1], imgs |-> <<>>, nrow |-> 0, padding |-> 0]

ImagesEvent(imgs, nrow, padding) ==
  [type |-> "images", y |-> <<>>, ret |-> Zeros(0), imgs |-> imgs,
   nrow |-> nrow, padding |-> padding]

\* ---------------------------------------------------------- sample grids
\* One pass of the outer loop (for i in range(10)) makes SamplesPerLabel model
\* calls (for rr in range(100)) and then one vis.images call, so a complete
\* run makes RowSteps calls per row.  Step k (from 0) of a run belongs to row
\* k \div RowSteps and is the model call rr = k % RowSteps, or the row's
\* vis.images call when k % RowSteps = SamplesPerLabel.
RowSteps == SamplesPerLabel + 1

GridSteps == NumLabels * RowSteps

\* The label argument of row i: ys[i] for the conditional grid, none otherwise.
LabelArg(conditional, i) == IF conditional THEN OneHot(i) ELSE <<>>

\* sample_loc_i = model(xs, ys[i])   /   model(x)
SampleLoc(m, conditional, i, rr) == ModelCall(m, LabelArg(conditional, i), rr)

\* img = sample_loc_i[0].view(1, 28, 28).cpu().data.numpy()
Img(m, conditional, i, rr) ==
  View(SampleLoc(m, conditional, i, rr)[1], <<1, ImgSide, ImgSide>>)

\* Variant: the inner loop stops one sample short.
RowImagesShort(m, conditional, i) ==
  [n \in 1..(SamplesPerLabel - 1) |-> Img(m, conditional, i, n - 1).val]

\* images = []; for rr in range(100): ...; images.append(img)
RowImages(m, conditional, i) ==
  [n \in 1..SamplesPerLabel |-> Img(m, conditional, i, n - 1).val]

\* Variant: a row is sent to the sink before its samples are drawn.
StepEventSinkFirst(m, conditional, k) ==
  LET i == k \div RowSteps
      rr == k % RowSteps
  IN IF rr = 0
     THEN ImagesEvent(RowImages(m, conditional, i), GridNrow, GridPadding)
     ELSE ModelEvent(LabelArg(conditional, i), SampleLoc(m, conditional, i, rr - 1))

StepEvent(m, conditional, k) ==
  LET i == k \div RowSteps
      rr == k % RowSteps
  IN IF rr < SamplesPerLabel
     THEN ModelEvent(LabelArg(conditional, i), SampleLoc(m, conditional, i, rr))
     ELSE ImagesEvent(RowImages(m, conditional, i), GridNrow, GridPadding)

\* Variant: a sample that cannot be reshaped is passed on as it is.
RaisingStepsNone(m, conditional) == {}

\* The steps at which the reshape raises: the run stops at the first of them,
\* right after that step's model call.
RaisingSteps(m, conditional) ==
  {k \in 0..(GridSteps - 1) :
     /\ k % RowSteps < SamplesPerLabel
     /\ ~Img(m, conditional, k \div RowSteps, k % RowSteps).ok}

GridRun(m, conditional) ==
  LET bad == RaisingSteps(m, conditional)
      stop == IF bad = {} THEN GridSteps
              ELSE 1 + CHOOSE k \in bad : \A j \in bad : k <= j
  IN [ok |-> bad = {},
      ev |-> [k \in 1..stop |-> StepEvent(m, conditional, k - 1)]]

\* ------------------------------------------------------- call records
\* An optional name argument: None, or a string.
NoName == [given |-> FALSE, text |-> <<>>]

Named(s) == [given |-> TRUE, text |-> s]

NoArgs == [name |-> <<>>, z |-> <<>>, classes |-> <<>>, train |-> <<>>, test |-> <<>>]

\* op: the function called; ok: it returned normally; raisedAt: the call
\* that raised; evFrom: Len(events) at entry; written: the locations saved to,
\* in order; rows: rows of the loss table; created: mkdir made the directory;
\* rng: the global generator's state at entry; embed: the 2-D coordinates.
\* paths: the paths given to savefig, in order; out: the content of each file
\* saved; via: the wrapper that made the call, the name argument it was given
\* and the location and scale vectors its encoder returned.
Direct == [wrapper |-> "", nameArg |-> NoName, loc |-> <<>>, scale |-> <<>>]

BlankLast ==
  [op |-> "", ok |-> TRUE, raisedAt |-> "", evFrom |-> 0, written |-> <<>>,
   args |-> NoArgs, rows |-> 0, created |-> FALSE, rng |-> 0, embed |-> <<>>,
   paths |-> <<>>, out |-> <<>>, via |-> Direct]

\* A call's entry in the history: the function, whether it returned and,
\* if not, the call that raised.
Outcome(rec) == [op |-> rec.op, ok |-> rec.ok, raisedAt |-> rec.raisedAt]

GridEffects(op, r) ==
  /\ events' = events \o r.ev
  /\ last' = [BlankLast EXCEPT !.op = op, !.ok = r.ok,
                               !.raisedAt = IF r.ok THEN "" ELSE "view",
                               !.evFrom = Len(events), !.rng = rng]

GridCall(op, m, conditional) ==
  /\ ncalls < MaxCalls
  /\ GridEffects(op, GridRun(m, conditional))
  /\ prev' = last
  /\ history' = Append(history, Outcome(last'))
  /\ ncalls' = ncalls + 1
  /\ UNCHANGED <<dirExists, files, figs, rng, tsneRuns, nbVars>>

plot_conditional_samples_ssvae(ssvae) ==
  GridCall("plot_conditional_samples_ssvae", ssvae, TRUE)

\* Variant: the unconditional grid hands the model a label too.
plot_vae_samples_labelled(vae) ==
  GridCall("plot_vae_samples", vae, TRUE)

plot_vae_samples(vae) ==
  GridCall("plot_vae_samples", vae, FALSE)

Models == [seed : 0..(NumSeeds - 1), outLen : {FlatLen, BadLen}]

\* ------------------------------------------------------------- file system
\* Strings that take part in path building are sequences of characters.
ResultsDirName == <<"v", "a", "e", "_", "r", "e", "s", "u", "l", "t", "s">>

DirPrefix == <<".", "/">> \o ResultsDirName \o <<"/">>

LlkBase == <<"t", "e", "s", "t", "_", "e", "l", "b", "o", "_", "v", "a", "e", ".", "p", "n", "g">>

LlkPath == DirPrefix \o LlkBase

EmbeddingInfix == <<"_", "e", "m", "b", "e", "d", "d", "i", "n", "g", "_">>

PngSuffix == <<".", "p", "n", "g">>

EmbeddingSuffix == <<"_", "e", "m", "b", "e", "d", "d", "i", "n", "g", ".", "p", "n", "g">>

Digits == <<"0", "1", "2", "3", "4", "5", "6", "7", "8", "9">>

\* str(n) of a non-negative integer
RECURSIVE StrInt(_)
StrInt(n) == IF n < 10 THEN <<Digits[n + 1]>>
             ELSE StrInt(n \div 10) \o <<Digits[(n % 10) + 1]>>

\* The components of a path, split at "/": the pieces between one cut and
\* the next, the cuts being the positions of "/" and the two ends.
RECURSIVE Pieces(_, _, _)
Pieces(p, from, cuts) ==
  LET to == CHOOSE c \in cuts : c > from /\ \A d \in cuts : d > from => c <= d
  IN IF to = Len(p) + 1
     THEN <<SubSeq(p, from + 1, to - 1)>>
     ELSE <<SubSeq(p, from + 1, to - 1)>> \o Pieces(p, to, cuts)

Split(p) == Pieces(p, 0, {i \in 1..Len(p) : p[i] = "/"} \cup {Len(p) + 1})

\* Path lookup as open() does it, from the working directory: every component
\* but the last must name an existing directory.  The tree holds the working
\* directory "cwd", its subdirectory "vae_results" when it exists, and what
\* lies above the working directory, "outside".
RECURSIVE Walk(_, _, _)
Walk(d, comps, exists) ==
  IF Len(comps) = 1
  THEN [ok |-> d # "none" /\ comps[1] # <<>>, dir |-> d, base |-> comps[1]]
  ELSE LET c == Head(comps)
           nd == IF d = "none" THEN "none"
                 ELSE IF c = <<".">> \/ c = <<>> THEN d
                 ELSE IF c = <<".", ".">>
                      THEN (IF d = "vae_results" THEN "cwd" ELSE "outside")
                 ELSE IF d = "cwd" /\ c = ResultsDirName /\ exists
                      THEN "vae_results"
                 ELSE "none"
       IN Walk(nd, Tail(comps), exists)

Resolve(path, exists) == Walk("cwd", Split(path), exists)

Loc(d, base) == [dir |-> d, base |-> base]

WriteFile(fs, loc, content) ==
  [l \in (DOMAIN fs) \cup {loc} |-> IF l = loc THEN content ELSE fs[l]]

\* Path("vae_results").mkdir(parents=True, exist_ok=...)
Mkdir(exists, exist_ok) ==
  [ok |-> ~exists \/ exist_ok, exists |-> TRUE, created |-> ~exists]

\* ------------------------------------------------------------------ figures
EmptyFig == [marks |-> {}, title |-> "", legend |-> {}]

Mark(kind, hue, color, obs, x, y) ==
  [kind |-> kind, hue |-> hue, color |-> color, obs |-> obs, x |-> x, y |-> y]

\* plt.figure(): a new empty figure, the current one from then on
PltFigure(open) == Append(open, EmptyFig)

\* The write behind savefig, r being the outcome of the path lookup.
SaveAt(fs, r, fig) ==
  IF r.ok
  THEN [ok |-> TRUE, files |-> WriteFile(fs, Loc(r.dir, r.base), fig),
        loc |-> Loc(r.dir, r.base)]
  ELSE [ok |-> FALSE, files |-> fs, loc |-> Loc("none", <<>>)]

\* Variant: savefig makes the directories its path goes through.
SaveFigMakingDirs(fs, exists, path, fig) == SaveAt(fs, Resolve(path, TRUE), fig)

\* figure.savefig(path): writes the figure's content, replacing any file at
\* that location; raises when the path does not lead to an existing directory.
SaveFig(fs, exists, path, fig) == SaveAt(fs, Resolve(path, exists), fig)

\* ---------------------------------------------------------------- plot_llk
\* pd.DataFrame({"Epoch": d.keys(), "ELBO": [-val for val in d.values()],
\*               "dataset": tag})
DataFrame(d, tag) ==
  [k \in 1..Len(d) |-> [Epoch |-> d[k][1], ELBO |-> 0 - d[k][2], dataset |-> tag]]

\* Variant: the test table is left out.
ConcatTrainOnly(df1, df2) == df1

\* pd.concat([df1, df2], axis=0)
Concat(df1, df2) == df1 \o df2

\* The hue levels of the table, in order of first appearance.
RECURSIVE HueLevels(_, _)
HueLevels(df, seen) ==
  IF df = <<>> THEN seen
  ELSE HueLevels(Tail(df),
                 IF \E j \in 1..Len(seen) : seen[j] = Head(df).dataset
                 THEN seen ELSE Append(seen, Head(df).dataset))

\* g.map(plotter, "Epoch", "ELBO"): one layer per hue level, in its colour.
FacetMap(df, kind) ==
  LET levels == HueLevels(df, <<>>)
  IN {Mark(kind, df[k].dataset,
           CHOOSE j \in 1..Len(levels) : levels[j] = df[k].dataset,
           0, df[k].Epoch, df[k].ELBO) : k \in 1..Len(df)}

\* g = sns.FacetGrid(df, hue="dataset") on a figure of its own, then the
\* scatter layer, the dashed line layer and the legend.
FacetGridFig(df) ==
  LET levels == HueLevels(df, <<>>)
  IN [marks |-> FacetMap(df, "point") \cup FacetMap(df, "line"),
      title |-> "",
      legend |-> {levels[j] : j \in 1..Len(levels)}]

\* plt.figure(figsize=(30, 10)); g = sns.FacetGrid(...): both open a new
\* figure, the grid's being the current one afterwards.
LlkFigures(open, df) == Append(PltFigure(open), FacetGridFig(df))

\* Variant: only the two figures opened by the call are closed.
CloseOwn(open) == SubSeq(open, 1, Len(open) - 2)

\* plt.close("all")
CloseAll(open) == <<>>

\* plt.savefig(path) of the current figure, then plt.close("all")
LlkSaved(rec, dir, df, open, saved) ==
  IF ~saved.ok
  THEN /\ last' = [rec EXCEPT !.ok = FALSE, !.raisedAt = "savefig",
                              !.rows = Len(df), !.created = dir.created]
       /\ dirExists' = dir.exists
       /\ figs' = open
       /\ UNCHANGED files
  ELSE /\ last' = [rec EXCEPT !.rows = Len(df), !.created = dir.created,
                              !.written = <<saved.loc>>, !.paths = <<LlkPath>>,
                              !.out = <<open[Len(open)]>>]
       /\ dirExists' = dir.exists
       /\ files' = saved.files
       /\ figs' = CloseAll(open)

\* Variant: an existing chart file is kept.
LlkDrawnKeepExisting(rec, dir, df, open) ==
  LlkSaved(rec, dir, df, open,
           IF Loc("vae_results", LlkBase) \in DOMAIN files
           THEN [ok |-> TRUE, files |-> files, loc |-> Loc("vae_results", LlkBase)]
           ELSE SaveFig(files, dir.exists, LlkPath, open[Len(open)]))

LlkDrawn(rec, dir, df, open) ==
  LlkSaved(rec, dir, df, open, SaveFig(files, dir.exists, LlkPath, open[Len(open)]))

LlkTable(rec, dir, df) == LlkDrawn(rec, dir, df, LlkFigures(figs, df))

\* after Path("vae_results").mkdir(parents=True, exist_ok=True)
LlkMade(rec, dir, train_elbo, test_elbo) ==
  IF ~dir.ok
  THEN /\ last' = [rec EXCEPT !.ok = FALSE, !.raisedAt = "mkdir"]
       /\ UNCHANGED <<dirExists, files, figs>>
  ELSE LlkTable(rec, dir, Concat(DataFrame(train_elbo, "Train"),
                                 DataFrame(test_elbo, "Test")))

\* Variant: mkdir without exist_ok.
LlkMkdirStrict(exists) == Mkdir(exists, FALSE)

\* Variant: no mkdir at all.
LlkMkdirSkipped(exists) == [ok |-> TRUE, exists |-> exists, created |-> FALSE]

LlkMkdir(exists) == Mkdir(exists, TRUE)

plot_llk(train_elbo, test_elbo) ==
  /\ ncalls < MaxCalls
  /\ LlkMade([BlankLast EXCEPT !.op = "plot_llk",
                !.args = [NoArgs EXCEPT !.train = train_elbo, !.test = test_elbo],
                !.evFrom = Len(events), !.rng = rng],
             LlkMkdir(dirExists), train_elbo, test_elbo)
  /\ prev' = last
  /\ history' = Append(history, Outcome(last'))
  /\ ncalls' = ncalls + 1
  /\ UNCHANGED <<events, rng, tsneRuns, nbVars>>

\* --------------------------------------------------------------- plot_tsne
\* random_state=None in the reducer's constructor
None == 0 - 1
\* fewest rows the reducer accepts
MinSamples == 1
\* range of an embedded coordinate
CoordMod == 3
\* number of states of the global random generator
RngMod == 2

RECURSIVE SumSeq(_)
SumSeq(q) == IF q = <<>> THEN 0 ELSE Head(q) + SumSeq(Tail(q))

\* TSNE(n_components, random_state).fit_transform(z_states): raises on too
\* few rows; otherwise one n_components-vector per row, a function of the
\* whole input and of the seed.  With random_state=None the seed is drawn
\* from the global generator, which advances.
FitTransform(z_states, n_components, random_state, g) ==
  LET seed == IF random_state = None THEN g ELSE random_state
  IN [ok |-> Len(z_states) >= MinSamples,
      embed |-> [r \in 1..Len(z_states) |->
                   [c \in 1..n_components |->
                      (z_states[r] + c * SumSeq(z_states) + seed) % CoordMod]],
      rng |-> IF random_state = None THEN (g + 1) % RngMod ELSE g]

\* Variant: the reducer built without a seed.
TsneEmbedUnseeded(z_states, g) == FitTransform(z_states, NComponents, None, g)

\* model_tsne = TSNE(n_components=2, random_state=0); fit_transform(z_states)
TsneEmbed(z_states, g) == FitTransform(z_states, NComponents, RandomState, g)

\* plt.scatter(z_embed[ind_class, 0], z_embed[ind_class, 1], s=10, color=color)
\* with ind_class = classes[:, ic] == 1 and color = plt.cm.Set1(ic)
Scatter(fig, z_embed, classes, ic) ==
  [fig EXCEPT !.marks = @ \cup
     {Mark("point", "", ic, r, z_embed[r][1], z_embed[r][2]) :
        r \in {q \in 1..Len(classes) : classes[q][ic + 1] = 1}}]

\* Variant: the class index is left out of the per-class path.
ClassPathNoClass(name, ic) == DirPrefix \o name \o EmbeddingInfix \o PngSuffix

ClassPath(name, ic) == DirPrefix \o name \o EmbeddingInfix \o StrInt(ic) \o PngSuffix

AggregatePath(name) == DirPrefix \o name \o EmbeddingSuffix

\* The figure the body of the class loop draws on for class ic, given the
\* figure as the previous pass left it.
ClassFig(fig, z_embed, classes, ic) ==
  [Scatter(fig, z_embed, classes, ic) EXCEPT !.title = "Latent Variable T-SNE per Class"]

\* for ic in range(10): ...; fig.savefig(per-class path)
\* st = [ok, raisedAt, fig, files, written, paths, out] is the state the loop
\* carries; ClassSaved is the rest of the loop once pass ic has drawn fig and
\* its savefig of path has returned saved.
RECURSIVE ClassLoop(_, _, _, _, _, _)
ClassSaved(ic, st, fig, path, saved, z_embed, classes, name, exists) ==
  IF ~saved.ok
  THEN [st EXCEPT !.ok = FALSE, !.raisedAt = "savefig", !.fig = fig,
                  !.paths = Append(@, path)]
  ELSE ClassLoop(ic + 1,
                 [st EXCEPT !.fig = fig, !.files = saved.files,
                            !.written = Append(@, saved.loc),
                            !.paths = Append(@, path),
                            !.out = Append(@, fig)],
                 z_embed, classes, name, exists)

ClassNamed(ic, st, fig, path, z_embed, classes, name, exists) ==
  ClassSaved(ic, st, fig, path, SaveFig(st.files, exists, path, fig),
             z_embed, classes, name, exists)

ClassDrawn(ic, st, fig, z_embed, classes, name, exists) ==
  ClassNamed(ic, st, fig, ClassPath(name, ic), z_embed, classes, name, exists)

ClassLoop(ic, st, z_embed, classes, name, exists) ==
  IF ic = NumClasses THEN st
  ELSE ClassDrawn(ic, st, ClassFig(st.fig, z_embed, classes, ic),
                  z_embed, classes, name, exists)

\* fig.savefig(aggregate path) after the loop
AggregateSaved(loop, path, agg) ==
  IF ~loop.ok THEN loop
  ELSE IF ~agg.ok THEN [loop EXCEPT !.ok = FALSE, !.raisedAt = "savefig",
                                    !.paths = Append(@, path)]
  ELSE [loop EXCEPT !.files = agg.files, !.written = Append(@, agg.loc),
                    !.paths = Append(@, path), !.out = Append(@, loop.fig)]

AggregateNamed(loop, path, exists) ==
  AggregateSaved(loop, path, SaveFig(loop.files, exists, path, loop.fig))

AfterLoop(loop, name, exists) == AggregateNamed(loop, AggregatePath(name), exists)

\* The loop's state at entry, fig being the figure it draws on.
LoopStart(fig, fs) ==
  [ok |-> TRUE, raisedAt |-> "", fig |-> fig, files |-> fs, written |-> <<>>,
   paths |-> <<>>, out |-> <<>>]

\* Variant: the class loop starts at class 1.
TsneDrawFromOne(opened, z_embed, classes, name, fs, exists) ==
  AfterLoop(ClassLoop(1, LoopStart(opened[Len(opened)], fs),
                      z_embed, classes, name, exists),
            name, exists)

\* The class loop and the aggregate save, drawing on the current figure,
\* the last of the open ones.
TsneDraw(opened, z_embed, classes, name, fs, exists) ==
  AfterLoop(ClassLoop(0, LoopStart(opened[Len(opened)], fs),
                      z_embed, classes, name, exists),
            name, exists)

\* What a call that got past the reduction leaves behind.
TsneEffects(rec, red, opened, done, z_loc) ==
  /\ last' = [rec EXCEPT !.ok = done.ok, !.raisedAt = done.raisedAt,
                         !.written = done.written, !.embed = red.embed,
                         !.paths = done.paths, !.out = done.out]
  /\ files' = done.files
  \* the figure is never closed
  /\ figs' = [opened EXCEPT ![Len(opened)] = done.fig]
  /\ rng' = red.rng
  /\ tsneRuns' = tsneRuns \cup {[z |-> z_loc, embed |-> red.embed]}

TsneOpened(rec, red, opened, z_loc, classes, name) ==
  TsneEffects(rec, red, opened,
              TsneDraw(opened, red.embed, classes, name, files, dirExists), z_loc)

\* Variant: no new figure, the drawing goes to whichever figure is current.
TsneFigureReused(open) == IF open = <<>> THEN <<EmptyFig>> ELSE open

\* fig = plt.figure()
TsneFigure(open) == PltFigure(open)

\* Variant: the reducer's error is swallowed and the plots are made anyway.
TsneReducedSilently(rec, red, z_loc, classes, name) ==
  TsneOpened(rec, red, TsneFigure(figs), z_loc, classes, name)

TsneReduced(rec, red, z_loc, classes, name) ==
  IF ~red.ok
  THEN /\ last' = [rec EXCEPT !.ok = FALSE, !.raisedAt = "fit_transform"]
       /\ UNCHANGED <<files, figs, rng, tsneRuns>>
  ELSE TsneOpened(rec, red, TsneFigure(figs), z_loc, classes, name)

\* One run of plot_tsne's body; via tells which wrapper, if any, made the call.
TsneCall(via, z_loc, classes, name) ==
  /\ ncalls < MaxCalls
  /\ TsneReduced([BlankLast EXCEPT !.op = "plot_tsne",
                    !.args = [NoArgs EXCEPT !.name = name, !.z = z_loc, !.classes = classes],
                    !.evFrom = Len(events), !.rng = rng, !.via = via],
                 TsneEmbed(z_loc, rng), z_loc, classes, name)
  /\ prev' = last
  /\ history' = Append(history, Outcome(last'))
  /\ ncalls' = ncalls + 1
  /\ UNCHANGED <<dirExists, nbVars>>

plot_tsne(z_loc, classes, name) ==
  /\ TsneCall(Direct, z_loc, classes, name)
  /\ UNCHANGED events

\* ------------------------------------------------------ embedding wrappers
NameVAE == <<"V", "A", "E">>

NameSSVAE == <<"S", "S", "-", "V", "A", "E">>

\* The call a wrapper makes to its encoder; kind is the method called.
EncoderEvent(kind) ==
  [type |-> kind, y |-> <<>>, ret |-> Zeros(0), imgs |-> <<>>, nrow |-> 0, padding |-> 0]

\* z_loc, z_scale = encoder(data)
EncoderUnpack(ret) == [z_loc |-> ret[1], z_scale |-> ret[2]]

\* Variant: `if not name`, which also replaces an empty name.
SsvaeNameIfEmpty(name) ==
  IF ~name.given \/ name.text = <<>> THEN NameSSVAE ELSE name.text

\* if name is None: name = "SS-VAE"
SsvaeName(name) == IF ~name.given THEN NameSSVAE ELSE name.text

\* Variant: the scale vectors are the ones embedded.
WrapperCallOnScale(wrapper, kind, nameArg, name, enc, mnist_labels) ==
  /\ events' = Append(events, EncoderEvent(kind))
  /\ TsneCall([wrapper |-> wrapper, nameArg |-> nameArg, loc |-> enc.z_loc,
               scale |-> enc.z_scale],
              enc.z_scale, mnist_labels, name)

\* One encoder call, then plot_tsne(z_loc, mnist_labels, name)
WrapperCall(wrapper, kind, nameArg, name, enc, mnist_labels) ==
  /\ events' = Append(events, EncoderEvent(kind))
  /\ TsneCall([wrapper |-> wrapper, nameArg |-> nameArg, loc |-> enc.z_loc,
               scale |-> enc.z_scale],
              enc.z_loc, mnist_labels, name)

\* vae.encoder and test_loader.dataset stand for what they return.
mnist_test_tsne(vae, test_loader) ==
  WrapperCall("mnist_test_tsne", "encoder", NoName, NameVAE,
              EncoderUnpack(vae.encoder), test_loader.test_labels)

mnist_test_tsne_ssvae(name, ssvae, test_loader) ==
  WrapperCall("mnist_test_tsne_ssvae", "encoder_z", name, SsvaeName(name),
              EncoderUnpack(ssvae.encoder_z), test_loader.test_labels)

\* Other code of the process drawing from the global numpy generator.
UseGlobalRng ==
  /\ rng' = (rng + 1) % RngMod
  /\ UNCHANGED <<events, dirExists, files, figs, tsneRuns, last, prev, history,
                 ncalls, nbVars>>

\* ------------------------------------------------------ PyroModule library
\* Linear(5, 2), torch.randn(100, 5) and torch.randn(10) in the notebook
InSize == 5
OutSize == 2
BatchSize == 100
DataLen == 10

\* The direct base classes of the notebook's classes and of the library's.
Bases(c) ==
  CASE c = "Linear" -> {"Module"}
    [] c = "PyroModule" -> {"Module"}
    [] c = "PyroLinear" -> {"Linear", "PyroModule"}
    [] c = "PyroModule[Linear]" -> {"Linear", "PyroModule"}
    [] c = "BayesianLinear" -> {"PyroModule"}
    [] c = "BayesianLinear:411" -> {"PyroModule"}
    [] c = "Model" -> {"PyroModule"}
    [] c = "NormalModel" -> {"PyroModule"}
    [] c = "GlobalModel" -> {"NormalModel"}
    [] c = "LocalModel" -> {"NormalModel"}
    [] OTHER -> {}

RECURSIVE IsSubclass(_, _)
IsSubclass(c, d) == c = d \/ \E b \in Bases(c) : IsSubclass(b, d)

IsInstance(obj, c) == IsSubclass(obj.cls, c)

\* PyroModule[c]: the trivial mixin class of c and PyroModule
Bracket(c) ==
  IF IsSubclass(c, "PyroModule") THEN c
  ELSE IF c = "Linear" THEN "PyroModule[Linear]" ELSE "PyroModule"

\* An attribute: a Parameter, a PyroParam or a PyroSample with the batch and
\* event shape of its value, or absent (kind "").
Attr(kind, batch, event) == [kind |-> kind, batch |-> batch, event |-> event]

NoAttr == Attr("", <<>>, <<>>)

\* No object: a name not yet bound.  sub is the class of the module held in
\* the attribute `linear`, "" when there is none.
Unbound ==
  [cls |-> "", weight |-> NoAttr, bias |-> NoAttr, loc |-> NoAttr,
   obs_scale |-> NoAttr, sub |-> ""]

\* cls(...): what the class's __init__ sets.
New(cls) ==
  IF IsSubclass(cls, "Linear")
  THEN [Unbound EXCEPT !.cls = cls,
                       !.weight = Attr("Parameter", <<>>, <<InSize, OutSize>>),
                       !.bias = Attr("Parameter", <<>>, <<OutSize>>)]
  ELSE IF IsSubclass(cls, "NormalModel")
  THEN [Unbound EXCEPT !.cls = cls, !.loc = Attr("PyroSample", <<>>, <<>>)]
  ELSE [Unbound EXCEPT !.cls = cls]

\* Whether the class body defines a method named __init__.  The class of
\* line 411 defines __int__ and forward, the one of line 435 forward only.
DefinesInit(c) == c \in {"Linear", "NormalModel", "Model", "PyroModule", "Module"}

RECURSIVE InitOwner(_)
\* The class whose __init__ runs when c(...) is called.
InitOwner(c) ==
  IF DefinesInit(c) THEN c
  ELSE IF "PyroModule" \in Bases(c) THEN InitOwner("PyroModule")
  ELSE IF Bases(c) = {} THEN "Module"
  ELSE InitOwner(CHOOSE b \in Bases(c) : TRUE)

\* Whether the __init__ of class c takes n arguments after self:
\* Linear.__init__(self, in_size, out_size), NormalModel.__init__(self),
\* Model.__init__(self, in_size, out_size), the method of line 412 had it
\* been __init__, PyroModule.__init__(self, name=""), Module.__init__(self).
InitAccepts(c, n) ==
  CASE c \in {"Linear", "Model", "BayesianLinear:411"} -> n = 2
    [] c = "PyroModule" -> n <= 1
    [] OTHER -> n = 0

\* The object an accepted call c(...) makes: what the __init__ that ran set.
Built(c, owner) ==
  IF owner = "BayesianLinear:411"
  THEN [Unbound EXCEPT !.cls = c,
                       !.bias = Attr("PyroSample", <<>>, <<OutSize>>),
                       !.weight = Attr("PyroSample", <<>>, <<InSize, OutSize>>)]
  ELSE New(c)

\* Variant: the conversion builds a new object and leaves its argument alone.
to_pyro_module_copy(obj) == obj

\* to_pyro_module_(obj): changes the object's class in place
to_pyro_module_(obj) == [obj EXCEPT !.cls = Bracket(@)]

Reverse(q) == [i \in 1..Len(q) |-> q[Len(q) + 1 - i]]

\* Dimension i from the right of a shape, 1 where the shape is shorter.
DimR(shape, i) == IF i <= Len(shape) THEN shape[Len(shape) + 1 - i] ELSE 1

Max(a, b) == IF a >= b THEN a ELSE b

\* Broadcasting of two shapes, aligned at the right.
Broadcast(s1, s2) ==
  LET n == Max(Len(s1), Len(s2))
  IN [ok |-> \A i \in 1..n : \/ DimR(s1, i) = DimR(s2, i)
                             \/ DimR(s1, i) = 1
                             \/ DimR(s2, i) = 1,
      shape |-> [k \in 1..n |-> Max(DimR(s1, n + 1 - k), DimR(s2, n + 1 - k))]]

\* a @ b for two matrices
MatMul(a, b) ==
  [ok |-> Len(a) = 2 /\ Len(b) = 2 /\ a[2] = b[1],
   shape |-> IF Len(a) = 2 /\ Len(b) = 2 THEN <<a[1], b[2]>> ELSE <<>>]

\* Variant: plates leave the batch shape of a sample as it is.
PlateBroadcastNone(batch, plates) == [ok |-> TRUE, shape |-> batch]

\* The batch shape of a sample drawn inside the open plates (outermost
\* first): the first plate takes the rightmost dimension, and the batch shape
\* is expanded to each plate's size.
PlateBroadcast(batch, plates) ==
  LET r == Broadcast(batch, Reverse(plates))
  IN [ok |-> r.ok /\ \A i \in 1..Len(plates) : DimR(r.shape, i) = plates[i],
      shape |-> r.shape]

\* ----------------------------------------------------- running statements
\* A statement of a cell or of a forward method, with its line in the notebook.
Stmt(op, line, a, b) == [op |-> op, line |-> line, a |-> a, b |-> b]

\* The interpreter's state: self is the object at hand; active counts the
\* __call__ invocations of PyroModules under way, cache holds the samples
\* drawn in them; plates are the open plates; vals the values read so far,
\* reads the same with the attribute and the call they were read in; passed
\* the lines of the assertions that held; bound the class the name
\* BayesianLinear stands for; path the attribute names leading from the
\* module called to the one at hand; sites the names of the sample
\* statements run, in order.
StartEnv(obj, n) ==
  [self |-> obj, draws |-> n, active |-> 0, cache |-> {}, plates |-> <<>>,
   callNo |-> 0, calls |-> 0, vals |-> <<>>, reads |-> <<>>, input |-> <<>>,
   out |-> <<>>, passed |-> <<>>, raised |-> "", failedAt |-> 0,
   bound |-> "", path |-> <<>>, sites |-> <<>>]

Raise(e, line, what) == [e EXCEPT !.raised = what, !.failedAt = line]

AssertThat(e, line, cond) ==
  IF cond THEN [e EXCEPT !.passed = Append(@, line)]
  ELSE Raise(e, line, "AssertionError")

Push(e, attr, val) ==
  [e EXCEPT !.vals = Append(@, val),
            !.reads = Append(@, [attr |-> attr, val |-> val,
                                 call |-> IF e.active > 0 THEN e.callNo ELSE 0])]

\* pyro.sample at a PyroSample attribute: a value nobody has seen before,
\* kept for the rest of the __call__ under way.
Sampled(e, line, attr, at, b) ==
  IF ~b.ok THEN Raise(e, line, "ValueError")
  ELSE Push([e EXCEPT !.draws = @ + 1,
                      !.sites = Append(@, e.path \o <<attr>>),
                      !.cache = IF e.active > 0
                                THEN @ \cup {[attr |-> attr,
                                              val |-> [shape |-> b.shape \o at.event,
                                                       id |-> e.draws + 1]]}
                                ELSE @],
            attr, [shape |-> b.shape \o at.event, id |-> e.draws + 1])

\* Variant: every access draws, whether or not the call has drawn already.
GetAttrUncached(e, line, attr, at) ==
  IF at.kind = "" THEN Raise(e, line, "AttributeError")
  ELSE IF at.kind # "PyroSample" THEN Push(e, attr, [shape |-> at.event, id |-> 0])
  ELSE Sampled(e, line, attr, at, PlateBroadcast(at.batch, e.plates))

\* self.attr: PyroModule.__getattr__
GetAttr(e, line, attr, at) ==
  IF at.kind = "" THEN Raise(e, line, "AttributeError")
  ELSE IF at.kind # "PyroSample" THEN Push(e, attr, [shape |-> at.event, id |-> 0])
  ELSE IF e.active > 0 /\ \E c \in e.cache : c.attr = attr
  THEN Push(e, attr, (CHOOSE c \in e.cache : c.attr = attr).val)
  ELSE Sampled(e, line, attr, at, PlateBroadcast(at.batch, e.plates))

\* self.attr = value: nn.Module refuses anything but a Parameter in the place
\* of a registered parameter, PyroModule takes PyroParam and PyroSample too.
SetAttr(e, line, attr, new) ==
  IF ~IsInstance(e.self, "PyroModule") /\ new.kind # "Parameter"
  THEN Raise(e, line, "TypeError")
  ELSE [e EXCEPT !.self = [@ EXCEPT ![attr] = new]]

\* self.bias + input_ @ self.weight, on the two values read last
LinearOutput(e, line, mm) ==
  IF ~mm.ok THEN Raise(e, line, "RuntimeError")
  ELSE IF ~Broadcast(e.vals[Len(e.vals) - 1].shape, mm.shape).ok
  THEN Raise(e, line, "RuntimeError")
  ELSE [e EXCEPT !.out = Broadcast(e.vals[Len(e.vals) - 1].shape, mm.shape).shape]

\* pyro.sample("obs", dist.Normal(loc, 1), obs=data), loc being the value read last
SampleObs(e, line, b) ==
  IF ~b.ok \/ ~Broadcast(b.shape, e.input).ok THEN Raise(e, line, "ValueError")
  ELSE e

\* pyro.sample("obs", dist.Normal(obs_loc, obs_scale).to_event(1), obs=output):
\* obs_loc is the output of self.linear, obs_scale the value read last, and
\* the rightmost dimension of obs_loc is the event.
SampleSite(e, line, name, scale, batch) ==
  IF e.out = <<>> \/ ~Broadcast(e.out, scale).ok \/ ~batch.ok
  THEN Raise(e, line, "ValueError")
  ELSE [e EXCEPT !.sites = Append(@, <<name>>)]

\* cls(*args): the __init__ found for the class takes the arguments or
\* raises TypeError.  Model.__init__ sets self.linear = BayesianLinear(in_size,
\* out_size), with whatever class that name stands for, and self.obs_scale.
Accepted(e, line, cls, args, body) ==
  IF cls = "" THEN Raise(e, line, "NameError")
  ELSE IF ~InitAccepts(InitOwner(cls), Len(args)) THEN Raise(e, line, "TypeError")
  ELSE body

ModelInit(e, args) ==
  Accepted(e, 505, e.bound, args,
           [e EXCEPT !.self = [New("Model") EXCEPT
                                 !.sub = e.bound,
                                 !.obs_scale = Attr("PyroSample", <<>>, <<>>)]])

Construct(e, line, name, args) ==
  IF name = "Model" THEN Accepted(e, line, "Model", args, ModelInit(e, args))
  ELSE Accepted(e, line, e.bound, args,
                [e EXCEPT !.self = Built(e.bound, InitOwner(e.bound))])

\* The forward method of each class.
ForwardOf(cls) ==
  IF IsSubclass(cls, "Linear") \/ cls = "BayesianLinear:411"
  THEN <<Stmt("read", IF cls = "BayesianLinear:411" THEN 422 ELSE 90, "bias", 0),
         Stmt("read", IF cls = "BayesianLinear:411" THEN 422 ELSE 90, "weight", 0),
         Stmt("linear_output", IF cls = "BayesianLinear:411" THEN 422 ELSE 90, 0, 0)>>
  ELSE IF cls = "Model"
  THEN <<Stmt("call_sub", 509, "linear", 0), Stmt("read", 510, "obs_scale", 0),
         Stmt("plate", 511, 0, 0), Stmt("sample_site", 512, "obs", 0),
         Stmt("end_plate", 513, 0, 0)>>
  ELSE IF cls = "BayesianLinear"
  THEN <<Stmt("read", 437, "weight", 0), Stmt("read", 438, "weight", 0),
         Stmt("assert_is", 439, 0, 0)>>
  ELSE IF cls = "GlobalModel"
  THEN <<Stmt("read", 467, "loc", 0), Stmt("assert_shape", 468, "()", 0),
         Stmt("plate", 469, 0, 0), Stmt("sample_obs", 470, 0, 0),
         Stmt("end_plate", 470, 0, 0)>>
  ELSE IF cls = "LocalModel"
  THEN <<Stmt("plate", 474, 0, 0), Stmt("read", 477, "loc", 0),
         Stmt("assert_shape", 478, "(len(data),)", 0),
         Stmt("sample_obs", 479, 0, 0), Stmt("end_plate", 479, 0, 0)>>
  ELSE <<Stmt("raise", 0, "NotImplementedError", 0)>>

\* Leaving module(input): the cache goes with the outermost call.
ExitCall(e, done) ==
  [done EXCEPT !.active = e.active, !.callNo = e.callNo,
               !.cache = IF e.active = 0 THEN {} ELSE @,
               !.plates = e.plates, !.input = e.input]

RECURSIVE Exec(_, _)
\* module(input): PyroModule.__call__ opens the call's sample cache around forward.
CallModule(e, line, input) ==
  ExitCall(e, Exec(ForwardOf(e.self.cls),
                   [e EXCEPT !.calls = @ + 1, !.callNo = e.calls + 1,
                             !.active = IF IsInstance(e.self, "PyroModule")
                                        THEN @ + 1 ELSE @,
                             !.input = input]))

\* self.linear(input): the call of the module held in the attribute; its
\* samples are kept with those of the call under way.
CallSub(e, line, attr, input) ==
  IF e.self.sub = "" THEN Raise(e, line, "AttributeError")
  ELSE [Exec(ForwardOf(e.self.sub),
             [e EXCEPT !.self = Built(e.self.sub, InitOwner(e.self.sub)),
                       !.path = Append(@, attr), !.active = @ + 1])
          EXCEPT !.self = e.self, !.path = e.path, !.active = e.active]

Step(s, e) ==
  IF s.op = "new" THEN [e EXCEPT !.self = New(s.a)]
  ELSE IF s.op = "class" THEN [e EXCEPT !.bound = s.b]
  ELSE IF s.op = "construct" THEN Construct(e, s.line, s.a, s.b)
  ELSE IF s.op = "call_sub" THEN CallSub(e, s.line, s.a, e.input)
  ELSE IF s.op = "sample_site"
  THEN SampleSite(e, s.line, s.a, e.vals[Len(e.vals)].shape,
                  PlateBroadcast(SubSeq(e.out, 1, Len(e.out) - 1), e.plates))
  ELSE IF s.op = "raise" THEN Raise(e, s.line, s.a)
  ELSE IF s.op = "plate" THEN [e EXCEPT !.plates = Append(@, e.input[1])]
  ELSE IF s.op = "end_plate" THEN [e EXCEPT !.plates = SubSeq(@, 1, Len(@) - 1)]
  ELSE IF s.op = "assert_out" THEN AssertThat(e, s.line, e.out = s.a)
  ELSE IF s.op = "assert_is"
  THEN AssertThat(e, s.line, e.vals[Len(e.vals)] = e.vals[Len(e.vals) - 1])
  ELSE IF s.op = "assert_shape"
  THEN AssertThat(e, s.line,
                  e.vals[Len(e.vals)].shape
                    = IF s.a = "()" THEN <<>> ELSE <<e.input[1]>>)
  ELSE IF s.op = "linear_output"
  THEN LinearOutput(e, s.line, MatMul(e.input, e.vals[Len(e.vals)].shape))
  ELSE IF s.op = "sample_obs"
  THEN SampleObs(e, s.line, PlateBroadcast(e.vals[Len(e.vals)].shape, e.plates))
  ELSE IF e.self.cls = "" THEN Raise(e, s.line, "NameError")
  ELSE IF s.op = "isinstance"
  THEN AssertThat(e, s.line, IsInstance(e.self, s.a) = s.b)
  ELSE IF s.op = "to_pyro_module_" THEN [e EXCEPT !.self = to_pyro_module_(@)]
  ELSE IF s.op = "call" THEN CallModule(e, s.line, s.a)
  ELSE IF s.op = "read" THEN GetAttr(e, s.line, s.a, e.self[s.a])
  ELSE IF s.op = "set" THEN SetAttr(e, s.line, s.a, s.b)
  ELSE Raise(e, s.line, "SyntaxError")

\* Statements run in order until one raises.
Exec(stmts, e) ==
  IF stmts = <<>> \/ e.raised # "" THEN e
  ELSE Exec(Tail(stmts), Step(Head(stmts), e))

\* ------------------------------------------------------- notebook cells
ExampleInput == <<BatchSize, InSize>>

ExpectedOutput == <<BatchSize, OutSize>>

\* linear = Linear(5, 2) and its checks
CellLinear ==
  <<Stmt("new", 92, "Linear", 0),
    Stmt("isinstance", 93, "Module", TRUE),
    Stmt("isinstance", 94, "PyroModule", FALSE),
    Stmt("call", 97, ExampleInput, 0),
    Stmt("assert_out", 98, ExpectedOutput, 0)>>

\* class PyroLinear(Linear, PyroModule); linear = PyroLinear(5, 2)
CellPyroLinear ==
  <<Stmt("new", 131, "PyroLinear", 0),
    Stmt("isinstance", 132, "Module", TRUE),
    Stmt("isinstance", 133, "Linear", TRUE),
    Stmt("isinstance", 134, "PyroModule", TRUE),
    Stmt("call", 137, ExampleInput, 0),
    Stmt("assert_out", 138, ExpectedOutput, 0)>>

\* linear = PyroModule[Linear](5, 2)
CellBracket ==
  <<Stmt("new", 161, Bracket("Linear"), 0),
    Stmt("isinstance", 162, "Module", TRUE),
    Stmt("isinstance", 163, "Linear", TRUE),
    Stmt("isinstance", 164, "PyroModule", TRUE),
    Stmt("call", 167, ExampleInput, 0),
    Stmt("assert_out", 168, ExpectedOutput, 0)>>

\* linear = Linear(5, 2); to_pyro_module_(linear)
CellToPyro ==
  <<Stmt("new", 187, "Linear", 0),
    Stmt("isinstance", 188, "Module", TRUE),
    Stmt("isinstance", 189, "PyroModule", FALSE),
    Stmt("to_pyro_module_", 191, 0, 0),
    Stmt("isinstance", 192, "Module", TRUE),
    Stmt("isinstance", 193, "Linear", TRUE),
    Stmt("isinstance", 194, "PyroModule", TRUE),
    Stmt("call", 197, ExampleInput, 0),
    Stmt("assert_out", 198, ExpectedOutput, 0)>>

\* linear.bias = PyroParam(torch.randn(2).exp(), constraint=constraints.positive)
CellPyroParam ==
  <<Stmt("set", 276, "bias", Attr("PyroParam", <<>>, <<OutSize>>)),
    Stmt("read", 278, "bias", 0),
    Stmt("call", 281, ExampleInput, 0),
    Stmt("assert_out", 282, ExpectedOutput, 0)>>

\* linear.weight = PyroSample(dist.Normal(0, 1).expand([5, 2]).to_event(2)),
\* two prints of linear.weight, one call
CellPyroSample ==
  <<Stmt("set", 343, "weight", Attr("PyroSample", <<>>, <<InSize, OutSize>>)),
    Stmt("read", 345, "weight", 0),
    Stmt("read", 346, "weight", 0),
    Stmt("call", 349, ExampleInput, 0),
    Stmt("assert_out", 350, ExpectedOutput, 0)>>

\* data = torch.randn(n); LocalModel()(data); GlobalModel()(data)
CellPlates(n) ==
  <<Stmt("new", 482, "LocalModel", 0),
    Stmt("call", 482, <<n>>, 0),
    Stmt("new", 483, "GlobalModel", 0),
    Stmt("call", 483, <<n>>, 0)>>

\* A use of the class BayesianLinear of line 435: an instance, given a prior
\* for its weight the way line 343 gives one to linear, or left as
\* constructed, and called k times.
UseBayesianLinear(withPrior, k) ==
  <<Stmt("new", 435, "BayesianLinear", 0)>>
    \o (IF withPrior
        THEN <<Stmt("set", 343, "weight", Attr("PyroSample", <<>>, <<InSize, OutSize>>))>>
        ELSE <<>>)
    \o [i \in 1..k |-> Stmt("call", 436, ExampleInput, 0)]

\* The class statements of lines 411 and 435, each binding the name
\* BayesianLinear to the class it makes.
ClassStmt(line) ==
  Stmt("class", line, "BayesianLinear",
       IF line = 411 THEN "BayesianLinear:411" ELSE "BayesianLinear")

\* A use of the class Model of line 502 after the class statements at the
\* lines defs have run: Model(in_size, out_size), called k times on the
\* example input.
UseModel(defs, k) ==
  [i \in 1..Len(defs) |-> ClassStmt(defs[i])]
    \o <<Stmt("construct", 505, "Model", <<InSize, OutSize>>)>>
    \o [i \in 1..k |-> Stmt("call", 509, ExampleInput, 0)]

\* BayesianLinear(in_size, out_size) on its own, after the same class statements.
BuildBayesianLinear(defs) ==
  [i \in 1..Len(defs) |-> ClassStmt(defs[i])]
    \o <<Stmt("construct", 505, "BayesianLinear", <<InSize, OutSize>>)>>

\* What a cell's run leaves behind; binds tells whether the cell works on
\* the notebook's name `linear`.
CellDone(name, arg, e, binds) ==
  /\ cells' = Append(cells, [name |-> name, arg |-> arg, ok |-> e.raised = "",
                             raised |-> e.raised, failedAt |-> e.failedAt,
                             passed |-> e.passed, reads |-> e.reads,
                             out |-> e.out, obj |-> e.self, calls |-> e.calls,
                             drawn |-> e.draws - draws, sites |-> e.sites])
  /\ draws' = e.draws
  /\ linear' = IF binds THEN e.self ELSE linear

RunCell(name, arg, stmts, binds) ==
  /\ Len(cells) < MaxCells
  /\ CellDone(name, arg, Exec(stmts, StartEnv(IF binds THEN linear ELSE Unbound, draws)),
              binds)
  /\ UNCHANGED <<plotVars, ncalls, compiled, jitlog, coin>>

\* ------------------------------------------------------------ jitted SVI
\* for i in range(1 if smoke_test else 10)
NumEpochs == 10
\* for i in range(2 if smoke_test else 1000)
SmokeSteps == 2
NumSteps == 1000
\* data = dist.Normal(0.5, 2.).sample((100,))
DataSize == 100
\* number of distinct contents a sequence tensor may have
TensorMod == 2

Rep(x, n) == [i \in 1..n |-> x]

\* lengths = [24] * 50 + [48] * 20 + [72] * 5
Lengths == Rep(24, 50) \o Rep(48, 20) \o Rep(72, 5)

\* sequences[i] = torch.randn(lengths[i]), its content set by the seed
SequenceAt(i, seed) == [len |-> Lengths[i], id |-> (i + seed) % TensorMod]

\* num_sequences=..., length=...: the non-tensor arguments of a step
Kwargs(num_sequences, length) == [num_sequences |-> num_sequences, length |-> length]

\* Variant: the tensor arguments take part in the key.
KeyWithArgs(args, kwargs) ==
  {<<"length", kwargs.length>>, <<"num_sequences", kwargs.num_sequences>>,
   <<"args", args.id>>}

\* The key a jitted loss files a compiled trace under: the items of **kwargs.
Key(args, kwargs) ==
  {<<"length", kwargs.length>>, <<"num_sequences", kwargs.num_sequences>>}

\* A call of the jitted loss: it compiles when it holds no trace for the key.
JitCall(comp, key) == [compiled |-> comp \cup {key}, traced |-> key \notin comp]

\* jitlog counts the steps and the compilations since the ELBO was made and
\* keeps the kwargs and the tensor contents seen; pc is the position of the
\* notebook's loop (0 when it is not running), total its length, extra the
\* number of further steps made after it, order what the cell did first.
\* cell is the ELBO of the cell run last; warm the guides invoked so far;
\* cold the number of compilations made while the guide at hand had never
\* been invoked; warmup the arguments of the cell's eager guide call and
\* first those of its first step.
BlankJit ==
  [pc |-> 0, total |-> 0, seed |-> 0, steps |-> 0, compiles |-> 0, seen |-> {},
   tensors |-> {}, extra |-> 0, finished |-> FALSE, order |-> <<>>,
   cell |-> "", warm |-> {}, cold |-> 0, warmup |-> <<>>, first |-> <<>>]

\* No keyword arguments: each name stands at 0, a value no call passes.
NoKwargs == [num_sequences |-> 0, length |-> 0]

Call(args, kwargs) == [args |-> args, kwargs |-> kwargs]

\* guide = AutoDiagonalNormal(model) of the Gaussian model, and the guide
\* made for the HMM after it
GuideOf(cell) == IF cell = "JitTrace_ELBO" THEN "guide:93" ELSE "guide:302"

\* Step number pc of a cell's loop: svi.step(data), or
\* svi.step(sequence, num_sequences=len(sequences), length=len(sequence))
StepCall(cell, pc, seed) ==
  IF cell = "JitTrace_ELBO"
  THEN Call([len |-> DataSize, id |-> seed % TensorMod], NoKwargs)
  ELSE Call(SequenceAt(((pc - 1) % Len(Lengths)) + 1, seed),
            Kwargs(Len(Lengths), Lengths[((pc - 1) % Len(Lengths)) + 1]))

\* guide(data), or guide(sequences[0], num_sequences=len(sequences),
\* length=len(sequences[0]))
WarmupCall(cell, seed) ==
  IF cell = "JitTrace_ELBO"
  THEN Call([len |-> DataSize, id |-> seed % TensorMod], NoKwargs)
  ELSE Call(SequenceAt(1, seed), Kwargs(Len(Lengths), SequenceAt(1, seed).len))

JitStepped(log, r, args, kwargs) ==
  /\ compiled' = r.compiled
  /\ jitlog' = [log EXCEPT !.steps = @ + 1,
                           !.compiles = @ + (IF r.traced THEN 1 ELSE 0),
                           !.cold = @ + (IF r.traced /\ GuideOf(log.cell) \notin log.warm
                                         THEN 1 ELSE 0),
                           !.warm = @ \cup {GuideOf(log.cell)},
                           !.first = IF log.steps = 0 THEN <<Call(args, kwargs)>> ELSE @,
                           !.seen = @ \cup {kwargs},
                           !.tensors = @ \cup {args.id}]

\* svi.step(sequence, num_sequences=..., length=...) under JitTraceEnum_ELBO
svi_step(log, args, kwargs) ==
  JitStepped(log, JitCall(compiled, Key(args, kwargs)), args, kwargs)

\* One statement of a cell's head: the eager guide call makes the guide
\* warm and is remembered with its arguments.
HeadStmt(st, stmt, guide, call) ==
  [order |-> Append(st.order, stmt),
   warm |-> IF stmt = "guide" THEN st.warm \cup {guide} ELSE st.warm,
   warmup |-> IF stmt = "guide" THEN Append(st.warmup, call) ELSE st.warmup]

RECURSIVE RunHead(_, _, _, _)
RunHead(stmts, st, guide, call) ==
  IF stmts = <<>> THEN st
  ELSE RunHead(Tail(stmts), HeadStmt(st, Head(stmts), guide, call), guide, call)

\* Variant: the head of the eager cells, which has no guide call.
JitHeadNoWarmup(elbo) == <<"clear_param_store", elbo, "SVI">>

\* The head of a jitted cell: pyro.clear_param_store(), the guide's eager
\* call, elbo = Jit...ELBO(...), svi = SVI(model, guide, Adam(...), elbo)
JitHead(elbo) == <<"clear_param_store", "guide", elbo, "SVI">>

\* A cell's head has run and its loop of total steps is about to start;
\* the new ELBO holds no compiled trace.
JitCellStarted(cell, total, seed, head) ==
  /\ jitlog.pc = 0
  /\ compiled' = {}
  /\ jitlog' = [BlankJit EXCEPT
                  !.pc = 1, !.total = total, !.seed = seed, !.cell = cell,
                  !.order = head.order, !.warm = head.warm, !.warmup = head.warmup]
  /\ UNCHANGED <<plotVars, ncalls, linear, draws, cells, coin>>

\* The JitTraceEnum_ELBO cell up to its loop.
JitCellStart(smoke_test, seed) ==
  JitCellStarted("JitTraceEnum_ELBO",
                 Len(Lengths) * (IF smoke_test THEN 1 ELSE NumEpochs), seed,
                 RunHead(JitHead("JitTraceEnum_ELBO"),
                         [order |-> <<>>, warm |-> jitlog.warm, warmup |-> <<>>],
                         GuideOf("JitTraceEnum_ELBO"),
                         WarmupCall("JitTraceEnum_ELBO", seed)))

\* The JitTrace_ELBO cell up to its loop.
JitTraceCellStart(smoke_test, seed) ==
  JitCellStarted("JitTrace_ELBO", IF smoke_test THEN SmokeSteps ELSE NumSteps, seed,
                 RunHead(JitHead("JitTrace_ELBO"),
                         [order |-> <<>>, warm |-> jitlog.warm, warmup |-> <<>>],
                         GuideOf("JitTrace_ELBO"),
                         WarmupCall("JitTrace_ELBO", seed)))

JitLoopCall(log, call) == svi_step(log, call.args, call.kwargs)

\* One pass of the cell's loop: one svi.step call
JitLoopStep ==
  /\ jitlog.pc > 0
  /\ JitLoopCall([jitlog EXCEPT !.pc = IF @ = jitlog.total THEN 0 ELSE @ + 1,
                                !.finished = jitlog.pc = jitlog.total],
                 StepCall(jitlog.cell, jitlog.pc, jitlog.seed))
  /\ UNCHANGED <<plotVars, ncalls, linear, draws, cells, coin>>

\* A further svi.step call on a sequence, made outside the cell's loop.
SviStep(sequence, num_sequences) ==
  /\ jitlog.pc = 0
  /\ jitlog.cell # "JitTrace_ELBO"
  /\ jitlog.extra < MaxSteps
  /\ svi_step([jitlog EXCEPT !.extra = @ + 1], sequence,
              Kwargs(num_sequences, sequence.len))
  /\ UNCHANGED <<plotVars, ncalls, linear, draws, cells, coin>>

\* ------------------------------------------------------- the coin example
LatentName ==
  <<"l", "a", "t", "e", "n", "t", "_", "f", "a", "i", "r", "n", "e", "s", "s">>

\* Variant: every observation goes by the same name.
ObsNameFixed(i) == <<"o", "b", "s">>

\* "obs_{}".format(i)
ObsName(i) == <<"o", "b", "s", "_">> \o StrInt(i)

\* A pyro.sample statement as a trace keeps it: its name and whether it
\* was given obs=...
Site(name, observed) == [name |-> name, observed |-> observed]

\* def model(data): the latent site, then one observed site per datapoint
CoinModel(data) ==
  <<Site(LatentName, FALSE)>> \o [i \in 1..Len(data) |-> Site(ObsName(i - 1), TRUE)]

\* def guide(data): two pyro.param statements, then the latent site
CoinGuide(data) ==
  [params |-> <<"alpha_q", "beta_q">>, sites |-> <<Site(LatentName, FALSE)>>]

\* The parameters of the two functions, self-standing: both take data.
ModelParams == <<"data">>

GuideParams == <<"data">>

\* data = [] and the two loops appending heads ones and tails zeros
CoinData(heads, tails) == [i \in 1..(heads + tails) |-> IF i <= heads THEN 1 ELSE 0]

NoRun == [ran |-> FALSE, args |-> <<>>, sites |-> <<>>]

Ran(args, sites) == [ran |-> TRUE, args |-> args, sites |-> sites]

BlankCoin == [model |-> NoRun, guide |-> NoRun, steps |-> 0]

CoinUnchanged ==
  UNCHANGED <<plotVars, ncalls, linear, draws, cells, compiled, jitlog>>

\* model(data)
RunCoinModel(data) ==
  /\ coin' = [coin EXCEPT !.model = Ran(<<data>>, CoinModel(data))]
  /\ CoinUnchanged

\* guide(data)
RunCoinGuide(data) ==
  /\ coin' = [coin EXCEPT !.guide = Ran(<<data>>, CoinGuide(data).sites)]
  /\ CoinUnchanged

\* svi.step(data): the guide runs on the arguments of the step, then the model
CoinSviStep(data) ==
  /\ coin' = [coin EXCEPT !.guide = Ran(<<data>>, CoinGuide(data).sites),
                          !.model = Ran(<<data>>, CoinModel(data)),
                          !.steps = IF @ < MaxSteps THEN @ + 1 ELSE @]
  /\ CoinUnchanged

\* ------------------------------------------------------------------ inputs
Losses == {1, 2}

TestLosses == {3}

\* epoch -> loss mappings with keys 0..n-1, as (key, value) pairs in order
MappingsOver(values) ==
  UNION {{[k \in 1..n |-> <<k - 1, v[k]>>] : v \in [1..n -> values]} : n \in 1..MaxEpochs}

LocValues == {0, 1}

\* Row r of the one-hot label matrix carries class r - 1.
OneHotRow(label) == [c \in 1..NumClasses |-> IF c = label + 1 THEN 1 ELSE 0]

ClassesOf(n) == [r \in 1..n |-> OneHotRow((r - 1) % NumClasses)]

NameNested == <<"V", "A", "E", "_", "e", "m", "b", "e", "d", "d", "i", "n", "g">>

NameUp == <<".", ".", "/", "x">>

Names == {NameVAE, NameNested, NameUp}

\* What an encoder may return for n observations: (locations, scales).
EncoderReturns(n) ==
  {<<[r \in 1..n |-> 0], [r \in 1..n |-> v]>> : v \in LocValues}
    \cup {<<[r \in 1..n |-> 1], [r \in 1..n |-> 1]>>}

\* Flip records of up to MaxFlips flips, heads first.
CoinDatas ==
  UNION {{CoinData(heads, n - heads) : heads \in {0, n \div 2, n}} : n \in 0..MaxFlips}

\* The class cells run before BayesianLinear is used, in notebook order.
ClassCellsRun == {<<411>>, <<435>>, <<411, 435>>}

NameArgs == {NoName, Named(<<>>), Named(NameVAE), Named(NameUp)}

TestLoader(n) == [test_labels |-> ClassesOf(n)]

\* A file somebody else left in the output directory.
OtherLoc == Loc("vae_results", <<"S", "S", "-", "V", "A", "E">> \o EmbeddingSuffix)

OtherContent == [EmptyFig EXCEPT !.title = "earlier run"]

\* ------------------------------------------------------------ specification
Init ==
  /\ events = <<>>
  /\ dirExists \in BOOLEAN
  /\ files \in IF dirExists THEN {<<>>, WriteFile(<<>>, OtherLoc, OtherContent)}
               ELSE {<<>>}
  /\ figs = <<>>
  /\ rng = 0
  /\ tsneRuns = {}
  /\ last = BlankLast
  /\ prev = BlankLast
  /\ history = <<>>
  /\ ncalls = 0
  /\ linear = Unbound
  /\ draws = 0
  /\ cells = <<>>
  /\ compiled = {}
  /\ jitlog = BlankJit
  /\ coin = BlankCoin

NextGrid ==
  \/ \E m \in Models : plot_conditional_samples_ssvae(m)
  \/ \E m \in Models : plot_vae_samples(m)

NextLlk ==
  \E train \in MappingsOver(Losses), test \in MappingsOver(TestLosses) :
    plot_llk(train, test)

NextTsne ==
  \/ \E n \in 0..MaxObs :
       \E v \in LocValues :
         plot_tsne([r \in 1..n |-> v], ClassesOf(n), NameVAE)
  \/ UseGlobalRng

\* Both plots together, over every name and over fewer tables and embeddings.
Next ==
  \/ \E train \in MappingsOver(TestLosses), test \in MappingsOver(TestLosses) :
       plot_llk(train, test)
  \/ \E n \in {0, 1, MaxObs}, name \in Names :
       plot_tsne([r \in 1..n |-> 0], ClassesOf(n), name)

NextWrap ==
  \/ \E n \in {0, MaxObs} : \E e \in EncoderReturns(n) :
       mnist_test_tsne([encoder |-> e], TestLoader(n))
  \/ \E n \in {0, MaxObs} : \E e \in EncoderReturns(n) : \E name \in NameArgs :
       mnist_test_tsne_ssvae(name, [encoder_z |-> e], TestLoader(n))

NextModules ==
  \/ RunCell("Linear", 0, CellLinear, TRUE)
  \/ RunCell("PyroLinear", 0, CellPyroLinear, TRUE)
  \/ RunCell("PyroModule[Linear]", 0, CellBracket, TRUE)
  \/ RunCell("to_pyro_module_", 0, CellToPyro, TRUE)
  \/ RunCell("PyroParam", 0, CellPyroParam, TRUE)
  \/ RunCell("PyroSample", 0, CellPyroSample, TRUE)
  \/ \E n \in {1, MaxObs, DataLen} : RunCell("plates", n, CellPlates(n), FALSE)
  \/ \E withPrior \in BOOLEAN, k \in {1, MaxCalls} :
       RunCell("BayesianLinear", k, UseBayesianLinear(withPrior, k), FALSE)
  \/ \E defs \in ClassCellsRun, k \in {1, MaxCalls} :
       RunCell("Model", defs, UseModel(defs, k), FALSE)
  \/ \E defs \in ClassCellsRun :
       RunCell("BayesianLinear(in_size, out_size)", defs, BuildBayesianLinear(defs), FALSE)

NextJit ==
  \/ \E smoke_test \in BOOLEAN, seed \in 0..(NumSeeds - 1) :
       JitCellStart(smoke_test, seed)
  \/ \E smoke_test \in BOOLEAN, seed \in 0..(NumSeeds - 1) :
       JitTraceCellStart(smoke_test, seed)
  \/ JitLoopStep
  \/ \E length \in {24, 48, 72}, id \in 0..(TensorMod - 1) :
       SviStep([len |-> length, id |-> id], Len(Lengths))

NextCoin ==
  \/ \E data \in CoinDatas : RunCoinModel(data)
  \/ \E data \in CoinDatas : RunCoinGuide(data)
  \/ \E data \in CoinDatas : CoinSviStep(data)

SpecGrid == Init /\ [][NextGrid]_vars

SpecCoin == Init /\ [][NextCoin]_vars

SpecLlk == Init /\ [][NextLlk]_vars

SpecTsne == Init /\ [][NextTsne]_vars

Spec == Init /\ [][Next]_vars

SpecModules == Init /\ [][NextModules]_vars

SpecJit == Init /\ [][NextJit]_vars

SpecWrap == Init /\ [][NextWrap]_vars

\* ------------------------------------------------ properties: sample grids
\* The collaborator calls made by the most recent helper call.
LastEvents == SubSeq(events, last.evFrom + 1, Len(events))

IsImagesCall(e) == e.type = "images"

SinkCalls(ev) == SelectSeq(ev, IsImagesCall)

\* The model calls of a run that were conditioned on label i.
ModelCallsFor(ev, i) ==
  LET OnLabel(e) == e.type = "model" /\ e.y = OneHot(i)
  IN SelectSeq(ev, OnLabel)

\* Sink call number i + 1 carries SamplesPerLabel images, image n being the
\* first element of the n-th return value for label i, as 1 x 28 x 28.
RowMatches(sink, calls) ==
  /\ Len(sink.imgs) = SamplesPerLabel
  /\ Len(calls) >= SamplesPerLabel
  /\ \A n \in 1..SamplesPerLabel :
       sink.imgs[n] = [shape |-> <<1, ImgSide, ImgSide>>, id |-> calls[n].ret.id]

GridAsClaimed(ev, sinks) ==
  /\ Len(sinks) = NumLabels
  /\ \A i \in 0..(NumLabels - 1) : RowMatches(sinks[i + 1], ModelCallsFor(ev, i))

\* C1: a completed call of plot_conditional_samples_ssvae has issued exactly
\* one vis.images call per label, 10 in all and in label order 0..9, each
\* carrying exactly 100 images, every image being the first element of the
\* model's return value for that label reshaped to 1x28x28.
C1_OneAppendPerLabel ==
  (last.op = "plot_conditional_samples_ssvae" /\ last.ok)
    => GridAsClaimed(LastEvents, SinkCalls(LastEvents))

C1_Witness ==
  /\ last.op = "plot_conditional_samples_ssvae"
  /\ last.ok
  /\ Len(events) - last.evFrom = GridSteps

\* ----------------------------------------------------- properties: plot_tsne
\* The classes that label at least one observation.
ClassesPresent(classes) ==
  {c \in 0..(NumClasses - 1) : \E r \in 1..Len(classes) : classes[r][c + 1] = 1}

Range(q) == {q[i] : i \in 1..Len(q)}

TsneDone == last.op = "plot_tsne" /\ last.ok

\* C2 as stated: a completed plot_tsne call over labels with k distinct
\* classes has written exactly k + 1 files.
C2_Original ==
  TsneDone => Len(last.written) = Cardinality(ClassesPresent(last.args.classes)) + 1

\* C2 amended: a completed plot_tsne call has written exactly 11 files, one
\* per class index 0..9 whether or not the class is present and then the
\* aggregate, all at different locations and all on disk.
C2_ElevenFiles ==
  TsneDone =>
    /\ Len(last.written) = NumClasses + 1
    /\ Cardinality(Range(last.written)) = NumClasses + 1
    /\ Range(last.written) \subseteq DOMAIN files

C2_Witness ==
  /\ TsneDone
  /\ Cardinality(ClassesPresent(last.args.classes)) < NumClasses
  /\ Cardinality(ClassesPresent(last.args.classes)) >= 1

\* C3: after a completed plot_tsne call the file saved for class c holds
\* only points of observations labelled c.
C3_OnlyOwnClass ==
  TsneDone =>
    \A ic \in 0..(NumClasses - 1) :
      \A mk \in files[last.written[ic + 1]].marks :
        last.args.classes[mk.obs][ic + 1] = 1

\* C6: two reductions of identical location vectors give identical 2-D
\* coordinates, whatever happened to the global generator in between, and
\* every embedded row has 2 components.
C6_SameInputSameEmbedding ==
  \A r1 \in tsneRuns :
    /\ \A i \in 1..Len(r1.embed) : Len(r1.embed[i]) = 2
    /\ \A r2 \in tsneRuns : r1.z = r2.z => r1.embed = r2.embed

C6_Witness ==
  /\ prev.op = "plot_tsne"
  /\ last.op = "plot_tsne"
  /\ Len(last.args.z) >= 1
  /\ prev.args.z = last.args.z
  /\ prev.rng # last.rng

\* C7: a plot_tsne call with zero observations raises in the reduction step
\* and writes nothing: no file appears or changes.
C7_EmptyInputRaises ==
  [][(last'.op = "plot_tsne" /\ ncalls' = ncalls + 1 /\ last'.args.z = <<>>)
       => /\ ~last'.ok
          /\ last'.raisedAt = "fit_transform"
          /\ last'.written = <<>>
          /\ files' = files]_vars

C7_Witness ==
  /\ last.op = "plot_tsne"
  /\ last.args.z = <<>>
  /\ ~last.ok
  /\ dirExists

\* ------------------------------------------------------ properties: plot_llk
LlkLoc == Loc("vae_results", LlkBase)

SameCallAgain ==
  /\ last.op = "plot_llk"
  /\ last.ok
  /\ last'.op = "plot_llk"
  /\ ncalls' = ncalls + 1
  /\ last'.args = last.args

\* C4: a second plot_llk call with the same mappings, right after the first,
\* returns normally and leaves the directory and every file as the first
\* call left them.
C4_Idempotent ==
  [][SameCallAgain => (last'.ok /\ files' = files /\ dirExists' = dirExists)]_vars

C4_Witness ==
  /\ prev.op = "plot_llk"
  /\ prev.ok
  /\ last.op = "plot_llk"
  /\ last.ok
  /\ prev.args = last.args
  /\ LlkLoc \in DOMAIN files

LlkStep == last'.op = "plot_llk" /\ ncalls' = ncalls + 1

\* C5: from every file-system state plot_llk returns normally with the
\* directory existing and the chart written; it creates the directory
\* exactly when it was absent, and every other file stays as it was.
C5_DirectoryAndFrame ==
  [][LlkStep =>
       /\ last'.ok
       /\ dirExists'
       /\ last'.created = ~dirExists
       /\ DOMAIN files' = (DOMAIN files) \cup {LlkLoc}
       /\ \A l \in DOMAIN files : l # LlkLoc => files'[l] = files[l]]_vars

C5_Witness ==
  /\ last.op = "plot_llk"
  /\ last.ok
  /\ ~last.created
  /\ OtherLoc \in DOMAIN files
  /\ LlkLoc \in DOMAIN files

Points(fig) == {mk \in fig.marks : mk.kind = "point"}

\* C8: plot_llk writes exactly one file, at ./vae_results/test_elbo_vae.png;
\* the table has len(train) + len(test) rows; with 2 epochs in each mapping
\* the chart holds four points in two coloured series, Train and Test.
C8_OneFileFourPoints ==
  last.op = "plot_llk" =>
    /\ last.ok
    /\ last.written = <<LlkLoc>>
    /\ last.rows = Len(last.args.train) + Len(last.args.test)
    /\ (Len(last.args.train) = 2 /\ Len(last.args.test) = 2) =>
         /\ Cardinality(Points(files[LlkLoc])) = 4
         /\ {mk.hue : mk \in Points(files[LlkLoc])} = {"Train", "Test"}
         /\ Cardinality({mk.color : mk \in Points(files[LlkLoc])}) = 2
         /\ \A a, b \in Points(files[LlkLoc]) : (a.hue = b.hue) <=> (a.color = b.color)

C8_Witness ==
  /\ last.op = "plot_llk"
  /\ Len(last.args.train) = 2
  /\ Len(last.args.test) = 2
  /\ LlkLoc \in DOMAIN files

\* What a chart of the mappings in args plots: (series, epoch, value).
Plotted(args) ==
  {<<"Train", args.train[k][1], 0 - args.train[k][2]>> : k \in 1..Len(args.train)}
    \cup {<<"Test", args.test[k][1], 0 - args.test[k][2]>> : k \in 1..Len(args.test)}

\* C10: after plot_llk(A) followed by plot_llk(B) the second call has
\* returned normally and the chart file shows the mappings B and nothing else.
C10_Overwrites ==
  (prev.op = "plot_llk" /\ last.op = "plot_llk") =>
    /\ last.ok
    /\ {<<mk.hue, mk.x, mk.y>> : mk \in files[LlkLoc].marks} = Plotted(last.args)

C10_Witness ==
  /\ prev.op = "plot_llk"
  /\ last.op = "plot_llk"
  /\ last.ok
  /\ Plotted(prev.args) # Plotted(last.args)
  /\ LlkLoc \in DOMAIN files

\* ------------------------------------------------- properties: file names
HasSeparator(name) == \E i \in 1..Len(name) : name[i] = "/"

\* The three names a helper call may give a file.
NameAllowed(op, name, base) ==
  \/ op = "plot_llk" /\ base = LlkBase
  \/ op = "plot_tsne" /\ base = name \o EmbeddingSuffix
  \/ op = "plot_tsne" /\ \E ic \in 0..(NumClasses - 1) :
                            base = name \o EmbeddingInfix \o StrInt(ic) \o PngSuffix

WrittenAsNamed(c) ==
  /\ \A i \in 1..Len(c.written) :
       /\ c.written[i].dir = "vae_results"
       /\ NameAllowed(c.op, c.args.name, c.written[i].base)
  /\ Cardinality(Range(c.written)) = Len(c.written)

TwoEmbeddings == prev.op = "plot_tsne" /\ last.op = "plot_tsne"

\* C9 as stated: every file a call writes lies in ./vae_results/ under one
\* of the three names, one call's names are pairwise distinct, and two
\* plot_tsne calls with different names write disjoint sets of files.
C9_Original ==
  /\ WrittenAsNamed(last)
  /\ (TwoEmbeddings /\ prev.args.name # last.args.name)
       => Range(prev.written) \cap Range(last.written) = {}

\* C9 amended: the same, for calls whose name holds no path separator.
C9_NamesWithoutSeparator ==
  /\ ~HasSeparator(last.args.name) => WrittenAsNamed(last)
  /\ (/\ TwoEmbeddings
      /\ prev.args.name # last.args.name
      /\ ~HasSeparator(prev.args.name)
      /\ ~HasSeparator(last.args.name))
       => Range(prev.written) \cap Range(last.written) = {}

C9_Witness ==
  /\ TwoEmbeddings
  /\ prev.ok
  /\ last.ok
  /\ prev.args.name # last.args.name
  /\ ~HasSeparator(prev.args.name)
  /\ ~HasSeparator(last.args.name)

\* ------------------------------------------- properties: embedding wrappers
StartsWith(q, p) == Len(q) >= Len(p) /\ SubSeq(q, 1, Len(p)) = p

\* C11: mnist_test_tsne_ssvae passes on "SS-VAE" when its name argument is
\* None and the given name unchanged otherwise, mnist_test_tsne always passes
\* on "VAE", and every path saved to is "./vae_results/" followed by that
\* name and "_embedding".
C11_DisplayName ==
  /\ last.via.wrapper = "mnist_test_tsne" => last.args.name = <<"V", "A", "E">>
  /\ last.via.wrapper = "mnist_test_tsne_ssvae" =>
       /\ ~last.via.nameArg.given => last.args.name = <<"S", "S", "-", "V", "A", "E">>
       /\ last.via.nameArg.given => last.args.name = last.via.nameArg.text
  /\ last.via.wrapper # "" =>
       \A i \in 1..Len(last.paths) :
         StartsWith(last.paths[i],
                    <<".", "/", "v", "a", "e", "_", "r", "e", "s", "u", "l", "t", "s", "/">>
                      \o last.args.name
                      \o <<"_", "e", "m", "b", "e", "d", "d", "i", "n", "g">>)

C11_Witness ==
  /\ last.via.wrapper = "mnist_test_tsne_ssvae"
  /\ ~last.via.nameArg.given
  /\ last.ok
  /\ Len(last.paths) = NumClasses + 1
  /\ prev.via.wrapper = "mnist_test_tsne_ssvae"
  /\ prev.via.nameArg = Named(<<>>)
  /\ prev.ok

\* ------------------------------------------- properties: PyroModule notebook
Runs == {cells[i] : i \in 1..Len(cells)}

RunsOf(name) == {r \in Runs : r.name = name}

\* C12: each of the three ways of making a PyroModule from Linear gives an
\* object that passes the checks for nn.Module, Linear and PyroModule and
\* whose call on a (100, 5) input returns shape (100, 2); a plain Linear is
\* not a PyroModule, in its own cell and before the in-place conversion.
C12_ThreeWays ==
  /\ \A r \in RunsOf("PyroLinear") :
       r.ok /\ r.passed = <<132, 133, 134, 138>> /\ r.out = <<100, 2>>
  /\ \A r \in RunsOf("PyroModule[Linear]") :
       r.ok /\ r.passed = <<162, 163, 164, 168>> /\ r.out = <<100, 2>>
  /\ \A r \in RunsOf("to_pyro_module_") :
       r.ok /\ r.passed = <<188, 189, 192, 193, 194, 198>> /\ r.out = <<100, 2>>
  /\ \A r \in RunsOf("Linear") :
       r.ok /\ r.passed = <<93, 94, 98>> /\ r.out = <<100, 2>>

C12_Witness ==
  /\ Len(cells) = 3
  /\ cells[1].name = "PyroLinear"
  /\ cells[2].name = "PyroModule[Linear]"
  /\ cells[3].name = "to_pyro_module_"
  /\ cells[3].ok

\* The reads of sampled values.
SampleReads(r) == {r.reads[i] : i \in {j \in 1..Len(r.reads) : r.reads[j].val.id > 0}}

\* C13: within one __call__ every read of a PyroSample attribute returns the
\* same value, drawn once; reads in different calls return different draws;
\* and a BayesianLinear with a weight prior passes its check in every call,
\* drawing once per call.
C13_SampledOncePerCall ==
  /\ \A r \in Runs :
       \A a, b \in SampleReads(r) :
         (a.attr = b.attr /\ a.call > 0 /\ b.call > 0) =>
           /\ a.call = b.call => a.val = b.val
           /\ a.call # b.call => a.val.id # b.val.id
  /\ \A i, j \in 1..Len(cells) :
       i < j => \A a \in SampleReads(cells[i]), b \in SampleReads(cells[j]) :
                  a.val.id # b.val.id
  /\ \A r \in RunsOf("BayesianLinear") :
       (r.obj.weight.kind = "PyroSample") =>
         /\ r.ok
         /\ Len(r.passed) = r.calls
         /\ Len(r.reads) = 2 * r.calls
         /\ r.drawn = r.calls

C13_Witness ==
  \E r \in RunsOf("BayesianLinear") :
    /\ r.obj.weight.kind = "PyroSample"
    /\ r.calls = 2
    /\ r.ok
    /\ Len(r.reads) = 4

\* C14: in the cell of the two plate models, run on data of any length n,
\* no assertion fails; .loc read inside the plate (LocalModel, run first) has
\* shape (n,), and .loc read before the plate (GlobalModel) has shape ().
C14_ShapeByPlace ==
  \A r \in RunsOf("plates") :
    /\ r.ok
    /\ r.passed = <<478, 468>>
    /\ Len(r.reads) = 2
    /\ r.reads[1].val.shape = <<r.arg>>
    /\ r.reads[2].val.shape = <<>>

C14_Witness ==
  \E r \in RunsOf("plates") : r.arg = 10 /\ r.ok /\ Len(r.reads) = 2

\* --------------------------------------------------- properties: jitted SVI
\* C15: at every point the number of compilations made equals the number of
\* distinct kwargs values the steps were given, whatever the number of steps
\* and the tensors; the notebook's loop over lengths 24, 48, 72 ends with 3.
C15_OneCompilePerKwargs ==
  /\ jitlog.compiles = Cardinality(jitlog.seen)
  /\ Cardinality(compiled) = Cardinality(jitlog.seen)
  /\ (jitlog.cell = "JitTraceEnum_ELBO" /\ jitlog.finished /\ jitlog.extra = 0)
       => jitlog.compiles = 3

C15_Witness ==
  /\ jitlog.finished
  /\ jitlog.extra = 0
  /\ jitlog.steps = 750
  /\ jitlog.compiles = 3
  /\ jitlog.tensors = {0, 1}

\* ------------------------------------------------------ properties: figures
\* The marks of a saved chart as (series, epoch, value).
ChartMarks(fig) == {<<mk.hue, mk.x, mk.y>> : mk \in fig.marks}

\* C16: what a call saves holds only marks of that call: every mark in a
\* file saved by plot_tsne is the point of one of the call's observations, at
\* the call's coordinates and in its class's colour, and every mark in the
\* chart saved by plot_llk plots an entry of the call's two mappings.
C16_OwnMarksOnly ==
  /\ last.op = "plot_tsne" =>
       \A i \in 1..Len(last.out) : \A mk \in last.out[i].marks :
         /\ mk.kind = "point"
         /\ mk.obs \in 1..Len(last.args.z)
         /\ mk.x = last.embed[mk.obs][1]
         /\ mk.y = last.embed[mk.obs][2]
         /\ last.args.classes[mk.obs][mk.color + 1] = 1
  /\ last.op = "plot_llk" =>
       \A i \in 1..Len(last.out) : ChartMarks(last.out[i]) \subseteq Plotted(last.args)

C16_Witness ==
  /\ prev.op = "plot_tsne"
  /\ prev.ok
  /\ last.op = "plot_tsne"
  /\ last.ok
  /\ Len(prev.args.z) > Len(last.args.z)
  /\ Len(figs) = 2
  /\ figs[1].marks # {}
  /\ Len(last.out) = NumClasses + 1

\* ------------------------------------------- properties: what is embedded
IsEncoderCall(e) == e.type \in {"encoder", "encoder_z"}

EncoderCalls(ev) == SelectSeq(ev, IsEncoderCall)

Wrapped(r) == r.via.wrapper # ""

\* C17: two wrapper calls one after the other whose encoders returned the
\* same locations, over the same labels and under the same name, end the
\* same way and save the same content to the same paths whatever the scale
\* vectors were, and every wrapper call has invoked its encoder exactly once.
C17_ScaleIgnored ==
  /\ Wrapped(last) => Len(EncoderCalls(LastEvents)) = 1
  /\ ( /\ Wrapped(prev)
       /\ Wrapped(last)
       /\ prev.via.loc = last.via.loc
       /\ prev.args.classes = last.args.classes
       /\ prev.args.name = last.args.name )
       => /\ last.ok = prev.ok
          /\ last.paths = prev.paths
          /\ last.written = prev.written
          /\ last.out = prev.out

C17_Witness ==
  /\ Wrapped(prev)
  /\ Wrapped(last)
  /\ prev.ok
  /\ last.ok
  /\ prev.via.wrapper # last.via.wrapper
  /\ prev.via.loc = last.via.loc
  /\ prev.args.name = last.args.name
  /\ prev.via.scale # last.via.scale
  /\ Len(last.out) = NumClasses + 1
  /\ \E i \in 1..Len(last.out) : last.out[i].marks # {}

\* ------------------------------------------ properties: the two sample grids
\* The collaborator calls made by the helper call before the most recent one.
PrevEvents == SubSeq(events, prev.evFrom + 1, last.evFrom)

\* What a collaborator call looks like apart from the values passed: which
\* collaborator, how many images of which shapes, and the layout arguments.
CallShape(e) ==
  [type |-> e.type, shapes |-> [n \in 1..Len(e.imgs) |-> e.imgs[n].shape],
   nrow |-> e.nrow, padding |-> e.padding]

CallShapes(ev) == [k \in 1..Len(ev) |-> CallShape(ev[k])]

SinksAsClaimed(sinks) ==
  /\ Len(sinks) = 10
  /\ \A i \in 1..Len(sinks) :
       /\ Len(sinks[i].imgs) = 100
       /\ \A n \in 1..Len(sinks[i].imgs) : sinks[i].imgs[n].shape = <<1, 28, 28>>

Unlabelled(ev) == \A k \in 1..Len(ev) : ev[k].type = "model" => ev[k].y = <<>>

Labelled(ev) == \A k \in 1..Len(ev) : ev[k].type = "model" => ev[k].y # <<>>

\* C18: a completed plot_vae_samples call has made 10 vis.images calls of 100
\* images of 1x28x28 each and has called its model without a label every
\* time; set beside a completed plot_conditional_samples_ssvae call, which
\* labels every model call, its calls are the same in kind, order, number and
\* shape.
C18_SameSinkCalls ==
  (last.op = "plot_vae_samples" /\ last.ok) =>
    /\ SinksAsClaimed(SinkCalls(LastEvents))
    /\ Unlabelled(LastEvents)
    /\ (prev.op = "plot_conditional_samples_ssvae" /\ prev.ok) =>
         /\ Labelled(PrevEvents)
         /\ CallShapes(PrevEvents) = CallShapes(LastEvents)

C18_Witness ==
  /\ last.op = "plot_vae_samples"
  /\ last.ok
  /\ prev.op = "plot_conditional_samples_ssvae"
  /\ prev.ok
  /\ Len(SinkCalls(LastEvents)) = NumLabels
  /\ Len(SinkCalls(PrevEvents)) = NumLabels

\* Call number k of a run, counted from 1, is in row (k - 1) \div 101; the
\* row's first 100 calls go to the model with the row's one-hot label and
\* its last goes to the sink.
InRowOrder(ev) ==
  \A k \in 1..Len(ev) :
    IF (k - 1) % 101 < 100
    THEN ev[k].type = "model" /\ ev[k].y = OneHot((k - 1) \div 101)
    ELSE ev[k].type = "images"

IsModelCall(e) == e.type = "model"

\* C19: a completed plot_conditional_samples_ssvae call has made exactly 1000
\* model calls and 10 vis.images calls and nothing else; the 100 model calls
\* of row i carry the one-hot label i and come before the row's vis.images
\* call, which comes before the first model call of row i + 1.
C19_RowByRow ==
  (last.op = "plot_conditional_samples_ssvae" /\ last.ok) =>
    /\ Len(LastEvents) = 1010
    /\ Len(SelectSeq(LastEvents, IsModelCall)) = 1000
    /\ Len(SinkCalls(LastEvents)) = 10
    /\ InRowOrder(LastEvents)

C19_Witness ==
  /\ last.op = "plot_conditional_samples_ssvae"
  /\ last.ok
  /\ Len(LastEvents) = GridSteps
  /\ LastEvents[RowSteps].type = "images"
  /\ LastEvents[RowSteps + 1].y = OneHot(1)

GridOp(r) == r.op \in {"plot_conditional_samples_ssvae", "plot_vae_samples"}

\* C20: a sample-grid call whose model returns a first element of other than
\* 784 values ends with the error of the reshape, after exactly one model
\* call and without any vis.images call.
C20_FailsAtFirstReshape ==
  (GridOp(last) /\ Prod(LastEvents[1].ret.shape) # 784) =>
    /\ ~last.ok
    /\ last.raisedAt = "view"
    /\ Len(LastEvents) = 1
    /\ LastEvents[1].type = "model"
    /\ SinkCalls(LastEvents) = <<>>

C20_Witness ==
  /\ GridOp(last)
  /\ GridOp(prev)
  /\ last.op # prev.op
  /\ ~last.ok
  /\ ~prev.ok
  /\ Len(LastEvents) = 1
  /\ Prod(LastEvents[1].ret.shape) = BadLen

\* ------------------------------------------ properties: the output directory
\* A step that is a call of plot_tsne.
TsneStep == last'.op = "plot_tsne" /\ ncalls' = ncalls + 1

\* C21: plot_tsne never creates ./vae_results/.  A call made while the
\* directory is absent fails and leaves every file as it was, and when its
\* input got through the reduction it fails at the first savefig, the one of
\* class 0; the directory comes into being only by a plot_llk call, so a
\* plot_tsne call that succeeds found the directory there.
C21_NoDirectoryNoPlot ==
  [][ /\ (TsneStep /\ ~dirExists) =>
           /\ ~last'.ok
           /\ last'.written = <<>>
           /\ files' = files
           /\ ~dirExists'
           /\ Len(last'.args.z) >= 1 =>
                /\ last'.raisedAt = "savefig"
                /\ Len(last'.paths) = 1
      /\ (TsneStep /\ last'.ok) => dirExists
      /\ (~dirExists /\ dirExists') => last'.op = "plot_llk" ]_vars

C21_Witness ==
  /\ prev.op = "plot_tsne"
  /\ ~prev.ok
  /\ prev.raisedAt = "savefig"
  /\ prev.written = <<>>
  /\ last.op = "plot_llk"
  /\ last.created
  /\ dirExists

\* ------------------------------------------------ properties: open figures
RECURSIVE SinceLastLlk(_)
\* The calls made after the last plot_llk call.
SinceLastLlk(h) ==
  IF h = <<>> THEN <<>>
  ELSE IF h[Len(h)].op = "plot_llk" THEN <<>>
  ELSE Append(SinceLastLlk(SubSeq(h, 1, Len(h) - 1)), h[Len(h)])

CompletedTsne(o) == o.op = "plot_tsne" /\ o.ok

\* A plot_tsne call that got as far as plt.figure(): one that completed or
\* one that failed at a save.
FigureOpeningTsne(o) == o.op = "plot_tsne" /\ o.raisedAt # "fit_transform"

\* C22 as stated: the number of open figures equals the number of plot_tsne
\* calls completed since the last plot_llk call.
C22_Original ==
  Len(figs) = Len(SelectSeq(SinceLastLlk(history), CompletedTsne))

\* C22 amended: the number of open figures equals the number of plot_tsne
\* calls since the last plot_llk call that got past the reduction, whether
\* they completed or failed at a save; a plot_llk call leaves none open.
C22_OpenFigures ==
  Len(figs) = Len(SelectSeq(SinceLastLlk(history), FigureOpeningTsne))

C22_Witness ==
  /\ Len(history) = 2
  /\ CompletedTsne(history[1])
  /\ history[2].op = "plot_llk"
  /\ history[2].ok
  /\ figs = <<>>

\* ---------------------------------------------- properties: nested modules
\* The sample statements of k calls of Model.forward, as claimed.
ClaimedSites(k) ==
  [i \in 1..(4 * k) |->
     CASE i % 4 = 1 -> <<"linear", "bias">>
       [] i % 4 = 2 -> <<"linear", "weight">>
       [] i % 4 = 3 -> <<"obs_scale">>
       [] OTHER -> <<"obs">>]

\* C23: BayesianLinear(in_size, out_size) gives an object whose bias and
\* weight are PyroSample attributes, Model(in_size, out_size) is built around
\* one, and every call of the Model samples linear.bias, linear.weight,
\* obs_scale and then obs.
C23_ModelAroundBayesianLinear ==
  /\ \A r \in RunsOf("BayesianLinear(in_size, out_size)") :
       /\ r.ok
       /\ r.obj.bias.kind = "PyroSample"
       /\ r.obj.weight.kind = "PyroSample"
  /\ \A r \in RunsOf("Model") :
       /\ r.ok
       /\ r.obj.cls = "Model"
       /\ r.sites = ClaimedSites(r.calls)

SiteNames(sites) == {sites[i].name : i \in 1..Len(sites)}

Unobserved(sites) == {sites[i].name : i \in {j \in 1..Len(sites) : ~sites[j].observed}}

\* C25: the guide's only sample site is latent_fairness, which is the
\* model's only unobserved site; the two functions take the same parameter
\* and a step runs them on the same arguments; and the names of the sites of
\* one model run, the latent one and the observed ones of every datapoint,
\* are all different.
C25_NamesLineUp ==
  /\ ModelParams = GuideParams
  /\ coin.guide.ran =>
       /\ Len(coin.guide.sites) = 1
       /\ SiteNames(coin.guide.sites)
            = {<<"l", "a", "t", "e", "n", "t", "_", "f", "a", "i", "r", "n", "e", "s", "s">>}
  /\ coin.model.ran =>
       /\ Len(coin.model.sites) = Len(coin.model.args[1]) + 1
       /\ Cardinality(SiteNames(coin.model.sites)) = Len(coin.model.sites)
       /\ Unobserved(coin.model.sites)
            = {<<"l", "a", "t", "e", "n", "t", "_", "f", "a", "i", "r", "n", "e", "s", "s">>}
  /\ (coin.model.ran /\ coin.guide.ran) =>
       Unobserved(coin.model.sites) = SiteNames(coin.guide.sites)

C25_Witness ==
  /\ coin.model.ran
  /\ coin.guide.ran
  /\ coin.steps >= 1
  /\ coin.model.args = coin.guide.args
  /\ Len(coin.model.args[1]) = 11
  /\ coin.model.sites[11].name = <<"o", "b", "s", "_", "9">>
  /\ coin.model.sites[12].name = <<"o", "b", "s", "_", "1", "0">>

====
